---- MODULE Spec2Model ----
(***************************************************************************)
(* A model of the binding-path parser of src/src/lib.rs.                   *)
(*                                                                         *)
(* The parser is a recursive-descent parser over a character cursor        *)
(* (ParsingState).  The cursor's fields are the variables binding,         *)
(* current_index and current_char.  The rules that do not recurse (next,   *)
(* whitespace, identifier, expression, regex, optionally_quoted_segment,   *)
(* equals, parse_bracket) are operators from a cursor to a cursor and a    *)
(* result.  The mutually recursive rules (parse_path,                      *)
(* parse_segment_and_brackets, segment, simple_segment, nested_path) are   *)
(* run on an explicit call stack, one action per straight-line piece of    *)
(* each function.                                                          *)
(*                                                                         *)
(* Characters are one-character strings, a string is a sequence of them,   *)
(* and an Option<T> is a sequence of length at most one.                   *)
(***************************************************************************)
EXTENDS Integers, Sequences, FiniteSets, TLC

VARIABLES binding, current_index, current_char, stack, ret, pc, result

vars == <<binding, current_index, current_char, stack, ret, pc, result>>

----------------------------------------------------------------------------
(* Option<T> *)

None == <<>>

Some(x) == <<x>>

Unwrap(o) == o[1]

----------------------------------------------------------------------------
(* Characters *)

SEGMENT_SEPARATOR == "."

OPEN_CURL == "{"

CLOSE_CURL == "}"

OPEN_BRACKET == "["

CLOSE_BRACKET == "]"

EQUALS == "="

SINGLE_QUOTE == "'"

DOUBLE_QUOTE == "\""

\* The letters that occur in the inputs of this model; char::is_alphanumeric.
Letters == {"a", "b", "e", "f", "k", "l", "m", "n", "o", "r", "v", "y"}

IsAlphanumeric(c) == c \in Letters

\* char::is_whitespace, for the whitespace characters of this model's inputs.
IsWhitespace(c) == c = " "

is_identifier_char(c) ==
    IF c # None
    THEN IsAlphanumeric(Unwrap(c)) \/ Unwrap(c) = "_" \/ Unwrap(c) = "-" \/ Unwrap(c) = "@"
    ELSE FALSE

\* binding.chars().nth(n): the n-th character, counted from 0, if there is one.
CharsNth(b, n) == IF n >= 0 /\ n < Len(b) THEN Some(b[n + 1]) ELSE None

----------------------------------------------------------------------------
(* AST nodes *)

ValueNode(text) == [type |-> "Value", value |-> text]

\* impl From<ValueNode> for ExpressionNode: the text of the value.
ExpressionNode(v) == [type |-> "Expression", value |-> v.value]

PathNode(path) == [type |-> "Path", path |-> path]

QueryNode(key, value) == [type |-> "Query", key |-> key, value |-> value]

ConcatenatedNode(value) == [type |-> "Concatenated", value |-> value]

\* The variants of ConcatableNode.
ConcatableTypes == {"Path", "Value", "Expression"}

----------------------------------------------------------------------------
(* Errors (std::io::Error with a message) and rule results *)

Mismatch(expected, found) == <<"Expected '", expected, "' but found '", found, "'">>

UnexpectedCharacter(c) == <<"Unexpected character: '", c, "'">>

ExpectedIdentifier == <<"Expected identifier">>

\* A rule's outcome: the cursor it leaves, and Ok(val), Err(val) or a panic.
RuleOk(s, v) == [s |-> s, status |-> "ok", val |-> v]

RuleErr(s, m) == [s |-> s, status |-> "err", val |-> m]

RulePanic(s) == [s |-> s, status |-> "panic", val |-> None]

\* The ? operator: an Err (or a panic) of r is what the rule returns, and
\* otherwise the rule goes on with r.
Try(r, F(_)) == IF r.status # "ok" THEN r ELSE F(r)

----------------------------------------------------------------------------
(* The cursor: a record of ParsingState's current_index and current_char *)

Cursor(i, c) == [current_index |-> i, current_char |-> c]

\* ParsingState::new
New(b) == Cursor(1, CharsNth(b, 0))

\* ParsingState::next.  The message of the mismatch unwraps current_char,
\* which panics at the end of the input.
next(s, expected) ==
    IF expected # None /\ s.current_char # expected
    THEN IF s.current_char = None
         THEN RulePanic(s)
         ELSE RuleErr(s, Mismatch(Unwrap(expected), Unwrap(s.current_char)))
    ELSE LET i == s.current_index + 1
             c == CharsNth(binding, i)
         IN RuleOk(Cursor(i, c), c)

RECURSIVE whitespace(_)
whitespace(s) ==
    IF s.current_char # None /\ IsWhitespace(Unwrap(s.current_char))
    THEN LET r == next(s, None)
         IN IF r.status # "ok" THEN r ELSE whitespace(r.s)
    ELSE RuleOk(s, None)

\* The loop of identifier: the cursor and the text when the loop ends.
RECURSIVE IdentifierLoop(_, _)
IdentifierLoop(s, value) ==
    LET r == next(s, None)
    IN IF r.status # "ok" THEN [s |-> r.s, value |-> value]
       ELSE IF ~is_identifier_char(r.s.current_char) THEN [s |-> r.s, value |-> value]
       ELSE IdentifierLoop(r.s, Append(value, Unwrap(r.s.current_char)))

identifier(s) ==
    IF ~is_identifier_char(s.current_char)
    THEN RuleOk(s, None)
    ELSE LET l == IdentifierLoop(s, <<Unwrap(s.current_char)>>)
         IN IF Len(l.value) = 0 THEN RuleOk(l.s, None)
            ELSE RuleOk(l.s, Some(ValueNode(l.value)))

expression(s) ==
    IF s.current_char # Some(OPEN_CURL)
    THEN RuleOk(s, None)
    ELSE Try(next(s, Some(OPEN_CURL)), LAMBDA r1 :
         Try(whitespace(r1.s), LAMBDA r2 :
         Try(identifier(r2.s), LAMBDA value :
         Try(whitespace(value.s), LAMBDA r4 :
         Try(next(r4.s, Some(CLOSE_CURL)), LAMBDA r5 :
             IF value.val = None THEN RulePanic(r5.s)
             ELSE RuleOk(r5.s, Some(ExpressionNode(Unwrap(value.val)))))))))

\* Regex::is_match of the pattern [^'"]+ on a one-character string.
ID_REGEX_is_match(c) == c # SINGLE_QUOTE /\ c # DOUBLE_QUOTE

\* The loop of regex: the cursor when the loop ends, or the panic of
\* current_char.unwrap() at the end of the input.
RECURSIVE RegexLoop(_)
RegexLoop(s) ==
    LET r == next(s, None)
    IN IF r.status # "ok" THEN RuleOk(r.s, None)
       ELSE IF r.s.current_char = None THEN RulePanic(r.s)
       ELSE IF ~ID_REGEX_is_match(Unwrap(r.s.current_char)) THEN RuleOk(r.s, None)
       ELSE RegexLoop(r.s)

\* ParsingState::regex, called with ID_REGEX only.  It returns Ok(None) on
\* every path that returns.
regex(s) ==
    IF s.current_char = None THEN RulePanic(s)
    ELSE IF ~ID_REGEX_is_match(Unwrap(s.current_char)) THEN RuleOk(s, None)
    ELSE LET l == RegexLoop(s)
         IN IF l.status # "ok" THEN l ELSE RuleOk(l.s, None)

\* The quoted branch of optionally_quoted_segment.  id is what regex
\* returned, and id.unwrap() panics on None.
QuotedSegment(s, quote) ==
    Try(next(s, quote), LAMBDA r1 :
    Try(regex(r1.s), LAMBDA id :
    Try(next(id.s, quote), LAMBDA r3 :
        IF id.val = None THEN RulePanic(r3.s)
        ELSE RuleOk(r3.s, Some(Unwrap(id.val))))))

optionally_quoted_segment(s) ==
    Try(whitespace(s), LAMBDA r0 :
        IF r0.s.current_char # Some(SINGLE_QUOTE) \/ r0.s.current_char = Some(DOUBLE_QUOTE)
        THEN QuotedSegment(r0.s, IF r0.s.current_char = Some(SINGLE_QUOTE)
                                 THEN Some(SINGLE_QUOTE)
                                 ELSE Some(DOUBLE_QUOTE))
        ELSE RuleOk(r0.s, None))

RECURSIVE EqualsLoop(_)
EqualsLoop(s) ==
    IF s.current_char = Some(EQUALS)
    THEN LET r == next(s, None)
         IN IF r.status # "ok" THEN r ELSE EqualsLoop(r.s)
    ELSE RuleOk(s, TRUE)

equals(s) ==
    IF s.current_char # Some(EQUALS) THEN RuleOk(s, FALSE) ELSE EqualsLoop(s)

\* The end of parse_bracket: value is Some here, so the closing bracket is
\* required.
BracketClose(s, value) ==
    IF value # None
    THEN Try(next(s, Some(CLOSE_BRACKET)), LAMBDA r : RuleOk(r.s, value))
    ELSE RuleOk(s, value)

\* parse_bracket, after the key has been found (value.is_some()).
BracketAfterKey(s, key) ==
    Try(whitespace(s), LAMBDA w1 :
    Try(equals(w1.s), LAMBDA eq :
        IF eq.val
        THEN Try(whitespace(eq.s), LAMBDA w2 :
             Try(optionally_quoted_segment(w2.s), LAMBDA second :
             Try(whitespace(second.s), LAMBDA w3 :
                 BracketClose(w3.s, Some(QueryNode(Unwrap(key), second.val))))))
        ELSE BracketClose(eq.s, key)))

parse_bracket(s) ==
    IF s.current_char = Some(OPEN_BRACKET)
    THEN Try(next(s, Some(OPEN_BRACKET)), LAMBDA r1 :
         Try(whitespace(r1.s), LAMBDA r2 :
         Try(optionally_quoted_segment(r2.s), LAMBDA value :
             IF value.val # None THEN BracketAfterKey(value.s, value.val)
             ELSE RuleErr(value.s, ExpectedIdentifier))))
    ELSE RuleOk(s, None)

\* The bracket loop of parse_segment_and_brackets: parse_bracket until it
\* returns None, pushing each node on parsed.
RECURSIVE BracketLoop(_, _)
BracketLoop(s, parsed) ==
    LET bracket_segment == parse_bracket(s)
    IN IF bracket_segment.status # "ok" THEN bracket_segment
       ELSE IF bracket_segment.val # None
       THEN BracketLoop(bracket_segment.s, Append(parsed, Unwrap(bracket_segment.val)))
       ELSE RuleOk(bracket_segment.s, parsed)

\* impl From<Vec<AnyNode>> for ConcatenatedNode: the node, or None where the
\* conversion panics on a node that is not a ConcatableNode.
ConcatenatedNodeFrom(value) ==
    IF \A i \in 1..Len(value) : value[i].type \in ConcatableTypes
    THEN Some(ConcatenatedNode(value))
    ELSE None

\* SegmentResult without its case for one simple segment: the single node is
\* wrapped like any other sequence.
SegmentResultWrapsOne(s, segments) ==
    IF Len(segments) = 0 THEN RuleOk(s, None)
    ELSE IF ConcatenatedNodeFrom(segments) = None THEN RulePanic(s)
    ELSE RuleOk(s, ConcatenatedNodeFrom(segments))

\* The end of segment: what it returns for the simple segments it collected.
SegmentResult(s, segments) ==
    IF Len(segments) = 0 THEN RuleOk(s, None)
    ELSE IF Len(segments) = 1 THEN RuleOk(s, Some(segments[1]))
    ELSE IF ConcatenatedNodeFrom(segments) = None THEN RulePanic(s)
    ELSE RuleOk(s, ConcatenatedNodeFrom(segments))

\* Vec::append: moves all the elements of other into self, leaving other empty.
VecAppend(self, other) == [self |-> self \o other, other |-> <<>>]

\* PathEnds without its test for the end of the input.
PathEndsAtCloseCurlOnly(c) == c = Some(CLOSE_CURL)

\* The test of parse_path that ends the path without an error.
PathEnds(c) == c = None \/ c = Some(CLOSE_CURL)

----------------------------------------------------------------------------
(* Inputs *)

\* The longest input of the exhaustive part of the inputs.
MaxLen == 4

\* The longest identifier of the shaped inputs.
MaxIdLen == 3

\* The deepest {{ }} nesting of the shaped inputs.
MaxDepth == 2

Alphabet == {"a", "b", ".", "{", "}", "[", "]", "'", "\"", "=", " "}

AllStrings(n) == UNION {[1..k -> Alphabet] : k \in 0..n}

\* Identifiers: the non-empty strings over two identifier characters.
Ids(n) == UNION {[1..k -> {"a", "b"}] : k \in 1..n}

Spaces == {<<>>, <<" ">>}

\* id.id and id.id.id
DottedInputs ==
    {x \o <<".">> \o y : x \in Ids(MaxIdLen), y \in Ids(2)}
    \cup {x \o <<".">> \o y \o <<".">> \o z : x \in Ids(2), y \in Ids(1), z \in Ids(2)}

\* id.
TrailingSeparatorInputs == {x \o <<".">> : x \in Ids(MaxIdLen)}

\* { id }, with or without whitespace around id
ExpressionInputs ==
    {<<"{">> \o w1 \o x \o w2 \o <<"}">> : w1 \in Spaces, w2 \in Spaces, x \in Ids(MaxIdLen)}

\* Paths with nested paths in them: an optional identifier, {{ path }} and an
\* optional identifier, to the depth d.
RECURSIVE NestedPaths(_)
NestedPaths(d) ==
    IF d = 0 THEN {<<>>, <<"a">>, <<"a", "b">>, <<"a", ".", "b">>}
    ELSE NestedPaths(d - 1)
         \cup {x \o <<"{", "{">> \o p \o <<"}", "}">> \o y :
                  x \in {<<>>, <<"a">>}, p \in NestedPaths(d - 1), y \in {<<>>, <<"b">>}}

\* {{ path }} at the start of the input, and after one or two characters.
NestedInputs ==
    {x \o p : x \in {<<>>, <<"{">>, <<"a", "b">>, <<"a", ".">>}, p \in NestedPaths(MaxDepth)}

\* A bracket clause after the segment a or ab, and what the clause is to
\* append: ['k'], ['k'=], ['k'='v'], the same with double quotes, and with
\* whitespace before the key.
Quoted(q, x) == <<q>> \o x \o <<q>>

BracketCases ==
    LET Keys == {<<"k">>, <<"k", "e", "y">>}
        Vals == {<<"v">>, <<"v", "a", "l">>}
        Quotes == {SINGLE_QUOTE, DOUBLE_QUOTE}
        Opens == {x \o <<"[">> \o w : x \in Ids(2), w \in Spaces}
    IN {[binding |-> o \o Quoted(q, k) \o <<"]">>,
         node |-> ValueNode(k)] : o \in Opens, q \in Quotes, k \in Keys}
       \cup {[binding |-> o \o Quoted(q, k) \o <<"=", "]">>,
              node |-> QueryNode(ValueNode(k), None)] : o \in Opens, q \in Quotes, k \in Keys}
       \cup {[binding |-> o \o Quoted(q, k) \o <<"=">> \o Quoted(q, v) \o <<"]">>,
              node |-> QueryNode(ValueNode(k), Some(ValueNode(v)))] :
                 o \in Opens, q \in Quotes, k \in Keys, v \in Vals}

\* The examples of the specification's testable properties.
SpecExamples ==
    { <<>>,
      <<"f", "o", "o">>,
      <<"f", "o", "o", ".", "b", "a", "r">>,
      <<"f", "o", "o", ".">>,
      <<"{", "n", "a", "m", "e", "}">>,
      <<"{", "{", "f", "o", "o", ".", "b", "a", "r", "}", "}">>,
      <<"f", "o", "o", "[", "'", "k", "e", "y", "'", "=", "'", "v", "a", "l", "'", "]">> }

Inputs ==
    AllStrings(MaxLen) \cup Ids(MaxIdLen) \cup DottedInputs \cup TrailingSeparatorInputs
    \cup ExpressionInputs \cup NestedInputs \cup {c.binding : c \in BracketCases}
    \cup SpecExamples

----------------------------------------------------------------------------
(* The call stack of the recursive rules *)

Frame(f, l, v) == [fn |-> f, label |-> l, vec |-> v]

Top == stack[Len(stack)]

Pop == SubSeq(stack, 1, Len(stack) - 1)

Here == Cursor(current_index, current_char)

At(f, l) == pc = "running" /\ stack # <<>> /\ Top.fn = f /\ Top.label = l

NoRet == [status |-> "none", val |-> None]

SetCursor(s) == current_index' = s.current_index /\ current_char' = s.current_char

\* The function on top calls callee and goes on at label with its vector vec.
Call(s, label, vec, callee) ==
    /\ SetCursor(s)
    /\ stack' = Pop \o <<Frame(Top.fn, label, vec), Frame(callee, "start", <<>>)>>
    /\ ret' = NoRet
    /\ UNCHANGED <<binding, pc, result>>

\* The function on top returns Ok(v).
Return(s, v) ==
    /\ SetCursor(s)
    /\ stack' = Pop
    /\ ret' = [status |-> "ok", val |-> v]
    /\ UNCHANGED <<binding, pc, result>>

\* The function on top fails with r: every caller's ? forwards an error
\* unchanged up to parse_binding, and a panic aborts the parse.
Raise(r) ==
    /\ SetCursor(r.s)
    /\ stack' = <<>>
    /\ ret' = [status |-> r.status, val |-> r.val]
    /\ pc' = IF r.status = "panic" THEN "aborted" ELSE pc
    /\ UNCHANGED <<binding, result>>

Finish(r) == IF r.status = "ok" THEN Return(r.s, r.val) ELSE Raise(r)

----------------------------------------------------------------------------
(* The state after ParsingState::new, parse_path about to be called *)

Init ==
    /\ binding \in Inputs
    /\ current_index = New(binding).current_index
    /\ current_char = New(binding).current_char
    /\ stack = <<Frame("parse_path", "start", <<>>)>>
    /\ ret = NoRet
    /\ pc = "running"
    /\ result = None

ParsePathStart ==
    /\ At("parse_path", "start")
    /\ Call(Here, "loop", <<>>, "parse_segment_and_brackets")

ParsePathLoop ==
    /\ At("parse_path", "loop")
    /\ LET next_segment == ret.val
           a == VecAppend(Top.vec, Unwrap(next_segment))
           parts == a.self
           unwrapped == a.other
           sep == next(Here, Some(SEGMENT_SEPARATOR))
       IN IF next_segment = None THEN Return(Here, PathNode(Top.vec))
          ELSE IF PathEnds(current_char) THEN Return(Here, PathNode(parts))
          ELSE IF Len(unwrapped) = 0 /\ current_char # None
          THEN Raise(RuleErr(Here, UnexpectedCharacter(Unwrap(current_char))))
          ELSE IF sep.status # "ok" THEN Raise(sep)
          ELSE Call(sep.s, "loop", parts, "parse_segment_and_brackets")

ParseSegmentAndBracketsStart ==
    /\ At("parse_segment_and_brackets", "start")
    /\ Call(Here, "after_first", <<>>, "segment")

ParseSegmentAndBracketsRest ==
    /\ At("parse_segment_and_brackets", "after_first")
    /\ LET first_segment == ret.val
           r == BracketLoop(Here, <<Unwrap(first_segment)>>)
       IN IF first_segment # None
          THEN IF r.status # "ok" THEN Raise(r) ELSE Return(r.s, Some(r.val))
          ELSE Return(Here, Some(<<>>))

SegmentStart ==
    /\ At("segment", "start")
    /\ Call(Here, "loop", <<>>, "simple_segment")

SegmentLoop ==
    /\ At("segment", "loop")
    /\ ret.val # None
    /\ Call(Here, "loop", Append(Top.vec, Unwrap(ret.val)), "simple_segment")

SegmentReturn ==
    /\ At("segment", "loop")
    /\ ret.val = None
    /\ Finish(SegmentResult(Here, Top.vec))

SimpleSegmentStart ==
    /\ At("simple_segment", "start")
    /\ Call(Here, "after_nested", <<>>, "nested_path")

SimpleSegmentRest ==
    /\ At("simple_segment", "after_nested")
    /\ LET nested_path == ret.val
           e == expression(Here)
           i == identifier(e.s)
       IN IF nested_path # None THEN Return(Here, Some(Unwrap(nested_path)))
          ELSE IF e.status # "ok" THEN Raise(e)
          ELSE IF e.val # None THEN Return(e.s, e.val)
          ELSE Finish(i)

NestedPathStart ==
    /\ At("nested_path", "start")
    /\ LET r1 == next(Here, Some(OPEN_CURL))
           r2 == next(r1.s, Some(OPEN_CURL))
       IN IF current_char = Some(OPEN_CURL)
          THEN IF r1.status # "ok" THEN Raise(r1)
               ELSE IF r1.s.current_char = Some(OPEN_CURL)
               THEN IF r2.status # "ok" THEN Raise(r2)
                    ELSE Call(r2.s, "close", <<>>, "parse_path")
               ELSE Return(r1.s, None)
          ELSE Return(Here, None)

NestedPathClose ==
    /\ At("nested_path", "close")
    /\ LET path_node == ret.val
           r1 == next(Here, Some(CLOSE_CURL))
           r2 == next(r1.s, Some(CLOSE_CURL))
       IN IF r1.status # "ok" THEN Raise(r1)
          ELSE IF r2.status # "ok" THEN Raise(r2)
          ELSE Return(r2.s, Some(path_node))

\* parse_binding's match on what parse_path returned.
ParseBindingReturn ==
    /\ pc = "running"
    /\ stack = <<>>
    /\ result' = IF ret.status = "ok"
                 THEN [tag |-> "Ok", path |-> ret.val.path]
                 ELSE [tag |-> "Err", error |-> ret.val]
    /\ pc' = "done"
    /\ UNCHANGED <<binding, current_index, current_char, stack, ret>>

Next ==
    \/ ParsePathStart
    \/ ParsePathLoop
    \/ ParseSegmentAndBracketsStart
    \/ ParseSegmentAndBracketsRest
    \/ SegmentStart
    \/ SegmentLoop
    \/ SegmentReturn
    \/ SimpleSegmentStart
    \/ SimpleSegmentRest
    \/ NestedPathStart
    \/ NestedPathClose
    \/ ParseBindingReturn

Spec == Init /\ [][Next]_vars

----------------------------------------------------------------------------
(* Properties *)

\* parse_binding has returned, or the parse was aborted by a panic.
Finished == pc # "running"

\* parse_binding has returned Ok(path).
ParsedOk == pc = "done" /\ result.tag = "Ok"

IsIdentifierString(b) ==
    Len(b) > 0 /\ \A i \in 1..Len(b) : is_identifier_char(Some(b[i]))

\* The parts of b between its separators.
RECURSIVE SplitSegments(_)
SplitSegments(b) ==
    IF \E i \in 1..Len(b) : b[i] = SEGMENT_SEPARATOR
    THEN LET i == CHOOSE j \in 1..Len(b) :
                     b[j] = SEGMENT_SEPARATOR /\ \A k \in 1..(j - 1) : b[k] # SEGMENT_SEPARATOR
         IN <<SubSeq(b, 1, i - 1)>> \o SplitSegments(SubSeq(b, i + 1, Len(b)))
    ELSE <<b>>

RECURSIVE Trim(_)
Trim(b) ==
    IF Len(b) > 0 /\ IsWhitespace(b[1]) THEN Trim(Tail(b))
    ELSE IF Len(b) > 0 /\ IsWhitespace(b[Len(b)]) THEN Trim(SubSeq(b, 1, Len(b) - 1))
    ELSE b

\* C1: a non-empty input of identifier characters only parses to one Value
\* node whose text is the whole input.
C1_IdentifierIsOneValue ==
    (Finished /\ IsIdentifierString(binding))
        => (ParsedOk /\ result.path = <<ValueNode(binding)>>)

\* C2: two or more identifiers joined by single '.' separators parse to one
\* Value node per identifier, in the order of the input.
C2_SeparatedIdentifiers ==
    LET parts == SplitSegments(binding)
    IN (Finished /\ Len(parts) >= 2 /\ \A i \in 1..Len(parts) : IsIdentifierString(parts[i]))
           => (ParsedOk /\ result.path = [i \in 1..Len(parts) |-> ValueNode(parts[i])])

\* C3: for every input parse_binding returns Ok(path) or Err(message) and
\* never panics.
C3_NeverPanics ==
    /\ pc # "aborted"
    /\ pc = "done" => result.tag \in {"Ok", "Err"}

\* C4: '{' id '}', with or without whitespace around id, parses to one
\* Expression node with the text of id.
C4_ExpressionOfIdentifier ==
    LET n == Len(binding)
        id == Trim(SubSeq(binding, 2, n - 1))
    IN (Finished /\ n >= 3 /\ binding[1] = OPEN_CURL /\ binding[n] = CLOSE_CURL
          /\ IsIdentifierString(id))
           => (ParsedOk /\ result.path = <<ExpressionNode(ValueNode(id))>>)

\* Paths that the parser parses on their own, each with the nodes it parses
\* to: the empty path, and an identifier of one character.
OwnParses ==
    {[binding |-> <<>>, path |-> <<>>]}
    \cup {[binding |-> x, path |-> <<ValueNode(x)>>] : x \in Ids(1)}

\* The paths of OwnParses do parse on their own to their nodes.
OwnParsesParse ==
    \A p \in OwnParses :
        (Finished /\ binding = p.binding) => (ParsedOk /\ result.path = p.path)

\* C5: "{{" p "}}", for a path p that parses on its own to the nodes S, parses
\* to one Path node whose segments are S.
C5_NestedPathWrapsPath ==
    \A p \in OwnParses :
        (Finished /\ binding = <<"{", "{">> \o p.binding \o <<"}", "}">>)
            => (ParsedOk /\ result.path = <<PathNode(p.path)>>)

\* C6: a bracket clause with a quoted key after a segment parses and appends
\* one node: ['k'] the Value k, ['k'='v'] the Query of k and Some(v), ['k'=]
\* the Query of k and None.
C6_BracketClauseAppendsNode ==
    \A c \in BracketCases :
        (Finished /\ binding = c.binding)
            => (ParsedOk /\ Len(result.path) = 2 /\ result.path[2] = c.node)

\* Every Concatenated node in n, at every depth, has at least 2 elements,
\* each of them a Path, a Value or an Expression.
RECURSIVE WellFormed(_)
WellFormed(n) ==
    CASE n.type = "Path" -> \A i \in 1..Len(n.path) : WellFormed(n.path[i])
      [] n.type = "Query" ->
            WellFormed(n.key) /\ \A i \in 1..Len(n.value) : WellFormed(n.value[i])
      [] n.type = "Concatenated" ->
            /\ Len(n.value) >= 2
            /\ \A i \in 1..Len(n.value) :
                   n.value[i].type \in ConcatableTypes /\ WellFormed(n.value[i])
      [] OTHER -> TRUE

\* C7: in every successful parse result, at every depth, a Concatenated node
\* has at least 2 elements, each a Path, a Value or an Expression; one simple
\* segment alone is never wrapped.
C7_ConcatenatedNodes == ParsedOk => WellFormed(PathNode(result.path))

\* A successful result with a Concatenated node inside a nested path.
C7_ConcatenatedReached ==
    /\ ParsedOk
    /\ \E i \in 1..Len(result.path) :
           /\ result.path[i].type = "Path"
           /\ \E j \in 1..Len(result.path[i].path) :
                  result.path[i].path[j].type = "Concatenated"

\* C8: an identifier followed by a '.' with nothing after it is a failure.
C8_TrailingSeparatorFails ==
    LET n == Len(binding)
    IN (Finished /\ n >= 2 /\ binding[n] = SEGMENT_SEPARATOR
          /\ IsIdentifierString(SubSeq(binding, 1, n - 1)))
           => (pc = "done" /\ result.tag = "Err")

\* C9: the empty input parses to the empty path.
C9_EmptyInputIsEmptyPath ==
    (Finished /\ binding = <<>>) => (ParsedOk /\ result.path = <<>>)

\* The parse of the empty input has returned.
C9_EmptyInputParsed == binding = <<>> /\ pc = "done"

\* C10: when nested_path returns no match, current_index and current_char are
\* what they were when it was called.
C10_NoMatchLeavesCursor ==
    [][(/\ At("nested_path", "start")
        /\ stack' = Pop
        /\ ret' = [status |-> "ok", val |-> None])
          => (current_index' = current_index /\ current_char' = current_char)]_vars

====
